---- MODULE Spec2Model ----
(***************************************************************************)
(* A model of mimage: a massive image held as square chunks on disk, a     *)
(* per-chunk context with lazy load / background unload, a chunk cache,    *)
(* and deferred drawing operations fanned out over the affected chunks.    *)
(*                                                                         *)
(* float64 values are held in half units (the float 1.5 is the integer 3), *)
(* so int(f) truncates and is not the identity.  Colours are small         *)
(* naturals, 0 being the zero colour (transparent).                        *)
(***************************************************************************)
EXTENDS Integers, Sequences, FiniteSets, TLC

\* ------------------------------------------------------------------ bounds

\* Largest chunk index (per axis) a context can be created for.
MaxChunk == 1
\* Largest number of goroutines an operation may fan out to.
MaxRoutines == 2
\* Longest action queue the sequential exploration builds.
MaxQueue == 2
\* Number of operations the caller draws and runs (Do) in the concurrent runs.
MaxDos == 1
MaxCoord == 5
MaxSide == 4
MaxRuns == 2

\* ------------------------------------------------------- arithmetic helpers

Min2(a, b) == IF a <= b THEN a ELSE b
Max2(a, b) == IF a >= b THEN a ELSE b

\* Go's integer division truncates toward zero.
TruncDiv(a, b) == IF a >= 0 THEN a \div b ELSE -((-a) \div b)

\* float64(i) and int(f) on half-unit floats.
ToFloat(i) == 2 * i
ToInt(f) == TruncDiv(f, 2)

\* -------------------------------------------------------- image.Rectangle

\* image.Rect: a well-formed rectangle, the coordinates swapped if needed.
Rect(x0, y0, x1, y1) ==
    [MinX |-> Min2(x0, x1), MinY |-> Min2(y0, y1),
     MaxX |-> Max2(x0, x1), MaxY |-> Max2(y0, y1)]

ZR == [MinX |-> 0, MinY |-> 0, MaxX |-> 0, MaxY |-> 0]

RectEmpty(r) == r.MinX >= r.MaxX \/ r.MinY >= r.MaxY

\* Rectangle.Sub(p): the rectangle translated by -p.
RectSub(r, px, py) ==
    [MinX |-> r.MinX - px, MinY |-> r.MinY - py,
     MaxX |-> r.MaxX - px, MaxY |-> r.MaxY - py]

\* Rectangle.Intersect: the largest rectangle in both, ZR when that is empty.
RectIntersect(r, s) ==
    LET t == [MinX |-> Max2(r.MinX, s.MinX), MinY |-> Max2(r.MinY, s.MinY),
              MaxX |-> Min2(r.MaxX, s.MaxX), MaxY |-> Min2(r.MaxY, s.MaxY)]
    IN IF RectEmpty(t) THEN ZR ELSE t

\* The pixels of a (half-open) rectangle.
RectPixels(r) ==
    IF RectEmpty(r) THEN {}
    ELSE {<<x, y>> : x \in r.MinX .. (r.MaxX - 1), y \in r.MinY .. (r.MaxY - 1)}

\* ------------------------------------------------------------------ Mimage

Width(m) == m.bounds.MaxX - m.bounds.MinX
Height(m) == m.bounds.MaxY - m.bounds.MinY

\* toChunk: the chunk of (x,y) and whether (x,y) is judged inside the image.
toChunk(m, x, y) ==
    <<TruncDiv(x, m.chunkSize), TruncDiv(y, m.chunkSize),
      x >= m.bounds.MinX /\ x < m.bounds.MaxY /\ y >= m.bounds.MinY /\ y < m.bounds.MaxY>>

\* The keys the producer goroutine sends, in its order: x outer, y inner.
RECURSIVE KeyRun(_, _, _, _, _)
KeyRun(x, y, fy, lx, ly) ==
    IF x > lx THEN <<>>
    ELSE IF y > ly THEN KeyRun(x + 1, fy, fy, lx, ly)
    ELSE <<<<x, y>>>> \o KeyRun(x, y + 1, fy, lx, ly)

\* chunksWithin: the keys sent on the channel before it is closed.
chunksWithin(m, r0) ==
    LET r == RectIntersect(r0, RectSub(m.bounds, 1, 1))
    IN IF RectEmpty(r) THEN <<>>
       ELSE LET f == toChunk(m, r.MinX, r.MinY)
                l == toChunk(m, r.MaxX, r.MaxY)
            IN KeyRun(f[1], f[2], f[2], l[1], l[2])

Range(s) == {s[i] : i \in 1 .. Len(s)}

\* ------------------------------------------------------- the chunk canvas

\* Colours: 0 is the zero colour (transparent), the others are opaque
\* (1 is black, the default pattern of a new canvas).
Colours == 0 .. 2
Alpha(c) == IF c = 0 THEN 0 ELSE 255

LocalPts(cs) == (0 .. (cs - 1)) \X (0 .. (cs - 1))

\* No mask set (an empty function, so that it compares with a mask).
NoMask == <<>>

\* gg.NewContextForImage: the given pixels under a fresh drawing state
\* (transparent colour, black patterns, line width 1, no mask, no path).
NewContextForImage(pixels) ==
    [pix |-> pixels, color |-> 0, fillStyle |-> 1, strokeStyle |-> 1,
     lineWidth |-> ToFloat(1), mask |-> NoMask, path |-> <<>>]

\* gg.NewContext(cs, cs): a blank canvas.
NewContext(cs) == NewContextForImage([p \in LocalPts(cs) |-> 0])

\* What SavePNG writes: the pixels, none of the drawing state.
SavePNG(canvas) == canvas.pix

\* The pixels a paint may change: all of them, or those the mask lets through.
Unmasked(canvas) ==
    IF canvas.mask = NoMask THEN DOMAIN canvas.pix
    ELSE {p \in DOMAIN canvas.pix : canvas.mask[p] = 255}

Paint(canvas, pts, colour) ==
    IF Alpha(colour) = 0 THEN canvas
    ELSE [canvas EXCEPT !.pix =
            [p \in DOMAIN canvas.pix |->
                IF p \in pts /\ p \in Unmasked(canvas) THEN colour ELSE canvas.pix[p]]]

\* Pixel centres, in half units, covered by a path element.
InSpan(lo, len, c) ==
    IF len >= 0 THEN lo <= c /\ c < lo + len ELSE lo + len <= c /\ c < lo

Covers(e, p) ==
    LET cx == 2 * p[1] + 1
        cy == 2 * p[2] + 1
    IN CASE e[1] = "rect" -> InSpan(e[2], e[4], cx) /\ InSpan(e[3], e[5], cy)
         [] e[1] = "ellipse" ->
              /\ e[4] # 0 /\ e[5] # 0
              /\ (cx - e[2]) * (cx - e[2]) * e[5] * e[5]
                   + (cy - e[3]) * (cy - e[3]) * e[4] * e[4]
                 <= e[4] * e[4] * e[5] * e[5]
         [] OTHER -> FALSE

\* The pixel holding a path vertex.
OnVertex(e, p) ==
    /\ e[1] \in {"move", "line"}
    /\ e[2] >= 0 /\ e[3] >= 0
    /\ p = <<ToInt(e[2]), ToInt(e[3])>>

FillPts(canvas) ==
    {p \in DOMAIN canvas.pix : \E i \in 1 .. Len(canvas.path) : Covers(canvas.path[i], p)}

StrokePts(canvas) ==
    {p \in DOMAIN canvas.pix : \E i \in 1 .. Len(canvas.path) : OnVertex(canvas.path[i], p)}

\* ------------------------------------------------------ deferred functions

newDefFunc(f, args) == [Func |-> f, Args |-> args]

\* An apply that never calls setEdited.
NoEditingFuncs == {}

\* The deferred functions after which apply calls setEdited.
EditingFuncs ==
    {"setPixel", "drawRectangle", "drawEllipse", "fill", "stroke", "clear", "drawImage"}

\* One step of apply's switch on a chunk with offsets (offXI, offYI), for
\* every deferred function but setMask (which reads the mask image first).
applyAction(canvas, a, offXI, offYI) ==
    LET offX == ToFloat(offXI)
        offY == ToFloat(offYI)
    IN CASE a.Func = "setFillStyle" -> [canvas EXCEPT !.fillStyle = a.Args[1]]
         [] a.Func = "setStrokeStyle" -> [canvas EXCEPT !.strokeStyle = a.Args[1]]
         [] a.Func = "setLineWidth" -> [canvas EXCEPT !.lineWidth = a.Args[1]]
         [] a.Func = "setColor" ->
              [canvas EXCEPT !.color = a.Args[1], !.fillStyle = a.Args[1],
                             !.strokeStyle = a.Args[1]]
         [] a.Func = "setPixel" ->
              LET p == <<a.Args[1] - offXI, a.Args[2] - offYI>>
              IN IF p \in DOMAIN canvas.pix
                 THEN [canvas EXCEPT !.pix[p] = canvas.color]
                 ELSE canvas
         [] a.Func = "invertMask" ->
              [canvas EXCEPT !.mask =
                  IF canvas.mask = NoMask
                  THEN [p \in DOMAIN canvas.pix |-> 255]
                  ELSE [p \in DOMAIN canvas.pix |-> 255 - canvas.mask[p]]]
         [] a.Func = "moveTo" ->
              [canvas EXCEPT !.path = Append(@, <<"move", a.Args[1] - offX, a.Args[2] - offY>>)]
         [] a.Func = "lineTo" ->
              [canvas EXCEPT !.path = Append(@, <<"line", a.Args[1] - offX, a.Args[2] - offY>>)]
         [] a.Func = "closePath" -> [canvas EXCEPT !.path = Append(@, <<"close">>)]
         [] a.Func = "drawRectangle" ->
              [canvas EXCEPT !.path =
                  Append(@, <<"rect", a.Args[1] - offX, a.Args[2] - offY, a.Args[3], a.Args[4]>>)]
         [] a.Func = "rotateAbout" ->
              [canvas EXCEPT !.path =
                  Append(@, <<"rotate", a.Args[1], a.Args[2] - offX, a.Args[3] - offY>>)]
         [] a.Func = "drawEllipse" ->
              [canvas EXCEPT !.path =
                  Append(@, <<"ellipse", a.Args[1] - offX, a.Args[2] - offY, a.Args[3], a.Args[4]>>)]
         [] a.Func = "fill" ->
              [Paint(canvas, FillPts(canvas), canvas.fillStyle) EXCEPT !.path = <<>>]
         [] a.Func = "stroke" ->
              [Paint(canvas, StrokePts(canvas), canvas.strokeStyle) EXCEPT !.path = <<>>]
         [] a.Func = "clear" ->
              [canvas EXCEPT !.pix = [p \in DOMAIN canvas.pix |-> canvas.color]]
         [] a.Func = "drawImage" ->
              LET i == a.Args[1]
                  x == a.Args[2] - offXI
                  y == a.Args[3] - offYI
              IN Paint(canvas,
                       {p \in DOMAIN canvas.pix :
                           /\ x <= p[1] /\ p[1] < x + (i.MaxX - i.MinX)
                           /\ y <= p[2] /\ p[2] < y + (i.MaxY - i.MinY)},
                       i.colour)
         [] OTHER -> canvas

\* --------------------------------------------------------------- operation

\* newOperation: an empty queue; minX, minY start beyond the image, maxX, maxY at 0.
newOperation(m) ==
    [queue |-> <<>>,
     minX |-> ToFloat(Width(m)) + ToFloat(1), minY |-> ToFloat(Height(m)) + ToFloat(1),
     maxX |-> 0, maxY |-> 0, maxlineWidth |-> 0,
     routines |-> m.routines]

minMax(o, x, y) ==
    [o EXCEPT !.minX = Min2(o.minX, x), !.maxX = Max2(o.maxX, x),
              !.minY = Min2(o.minY, y), !.maxY = Max2(o.maxY, y)]

Enqueue(o, f, args) == [o EXCEPT !.queue = Append(@, newDefFunc(f, args))]

opSetRoutines(o, i) == [o EXCEPT !.routines = IF i < 1 THEN 1 ELSE i]

opDrawImage(o, i, x, y) ==
    Enqueue(minMax(minMax(o, ToFloat(x + i.MinX), ToFloat(y + i.MinY)),
                   ToFloat(x + i.MaxX - i.MinX), ToFloat(y + i.MaxY - i.MinY)),
            "drawImage", <<i, x, y>>)

opClear(o, m) ==
    [Enqueue(o, "clear", <<>>) EXCEPT
        !.minX = ToFloat(m.bounds.MinX), !.minY = ToFloat(m.bounds.MinY),
        !.maxX = ToFloat(m.bounds.MaxX), !.maxY = ToFloat(m.bounds.MaxY)]

opSetMask(o) == Enqueue(o, "setMask", <<"self">>)
opInvertMask(o) == Enqueue(o, "invertMask", <<>>)
opSetFillStyle(o, g) == Enqueue(o, "setFillStyle", <<g>>)
opSetStrokeStyle(o, g) == Enqueue(o, "setStrokeStyle", <<g>>)

opSetLineWidth(o, w0) ==
    LET w == Min2(ToFloat(1), w0)
    IN Enqueue([o EXCEPT !.maxlineWidth = Max2(o.maxlineWidth, w)], "setLineWidth", <<w>>)

opSetColor(o, c) == Enqueue(o, "setColor", <<c>>)
opSetPixel(o, x, y) == Enqueue(minMax(o, ToFloat(x), ToFloat(y)), "setPixel", <<x, y>>)
opMoveTo(o, x, y) == Enqueue(minMax(o, x, y), "moveTo", <<x, y>>)
opLineTo(o, x, y) == Enqueue(minMax(o, x, y), "lineTo", <<x, y>>)
opClosePath(o) == Enqueue(o, "closePath", <<>>)

opDrawRectangle(o, x, y, w, h) ==
    Enqueue(minMax(minMax(o, x, y), x + w, y + h), "drawRectangle", <<x, y, w, h>>)

opRotateAbout(o, angle, x, y) == Enqueue(o, "rotateAbout", <<angle, x, y>>)

opDrawEllipse(o, x, y, rx, ry) ==
    Enqueue(minMax(minMax(o, x - rx, y - ry), x + rx, y + ry), "drawEllipse", <<x, y, rx, ry>>)

opFill(o) == Enqueue(o, "fill", <<>>)
opStroke(o) == Enqueue(o, "stroke", <<>>)

\* Do, lines 72-75: the bounding box padded by maxlineWidth and clamped.
DoClamp(o, m) ==
    [o EXCEPT !.minX = Max2(0, o.minX - o.maxlineWidth),
              !.maxX = Min2(ToFloat(Width(m)), o.maxX + o.maxlineWidth),
              !.minY = Max2(0, o.minY - o.maxlineWidth),
              !.maxY = Min2(ToFloat(Height(m)), o.maxY + o.maxlineWidth)]

\* Do, line 78: the rectangle handed to chunksWithin (o already clamped).
DoRect(o) == Rect(ToInt(o.minX), ToInt(o.minY), ToInt(o.maxX), ToInt(o.maxY))

\* The keys Do's workers receive.
DoWork(o, m) == chunksWithin(m, DoRect(DoClamp(o, m)))

\* ------------------------------------------------------------------- state

\* A nil pointer, no key, an absent file, a file that does not decode.
NIL == <<>>
NoKey == <<>>
ABSENT == <<>>
CORRUPT == <<"corrupt">>
NONE == "none"
\* No goroutine (the holder of a free mutex).
NoOne == 0 - 1

\* Goroutines that call cache.Load: the caller (0) and Do's workers.
Main == 0
Workers == 1 .. MaxRoutines
Loaders == {Main} \cup Workers

\* Every chunk key a context can exist for.
KeySpace == (0 .. MaxChunk) \X (0 .. MaxChunk)

VARIABLES
    img,        \* the Mimage: bounds, chunkSize, routines
    op,         \* the operation being queued or executed
    chunks,     \* cache.chunks: the keys that have a context
    Img,        \* context.Img per key (NIL: not loaded)
    edited,     \* context.edited per key
    disk,       \* the chunk file per key: ABSENT, CORRUPT or the saved pixels
    chunkLock,  \* cache.chunkLock: its holder or NoOne
    loadLock,   \* context.loadLock per key: its holder or NoOne
    rwW,        \* context.unloadLock per key: the writer that has announced itself
    readers,    \* context.unloadLock per key: the number of read locks held
    rwait,      \* context.unloadLock per key: goroutines blocked in RLock
    ev,         \* the unload goroutine per key: "off", "sleep" or "locking"
    work,       \* keys the chunksWithin producer has still to send
    wg,         \* Do's WaitGroup counter
    errsClosed, \* whether Do's errs channel is closed
    ferr,       \* checkErrors' ferr: the keys whose errors were folded, in order
    proc,       \* per goroutine: program counter and locals
    fl,         \* Flush's locals
    dos,        \* number of Do calls the caller has made
    ret,        \* what the caller's last call returned
    hist        \* history of the current Do and of the canvases (observation only)

vars == <<img, op, chunks, Img, edited, disk, chunkLock, loadLock, rwW, readers,
          rwait, ev, work, wg, errsClosed, ferr, proc, fl, dos, ret, hist>>

imgVars == <<img, op>>
cacheVars == <<chunks, Img, edited, disk>>
lockVars == <<chunkLock, loadLock, rwW, readers, rwait>>
doVars == <<work, wg, errsClosed, ferr>>
callVars == <<fl, dos, ret>>

IdleProc ==
    [pc |-> "off", frame |-> NONE, key |-> NoKey, idx |-> 0, mwork |-> <<>>,
     macc |-> NoMask, lkey |-> NoKey, lnew |-> FALSE, lerr |-> FALSE, x |-> 0, y |-> 0]

IdleFlush == [locked |-> {}, cur |-> NoKey, written |-> {}, err |-> FALSE]

NoRet == [call |-> NONE, err |-> FALSE, val |-> NONE]

EmptyHist ==
    [targets |-> <<>>,                              \* what chunksWithin produced for Do
     taken |-> {},                                  \* keys received by a worker
     returned |-> {},                               \* keys whose apply has returned
     failed |-> {},                                 \* keys whose apply returned an error
     replayed |-> [k \in KeySpace |-> <<>>],        \* actions applied per key, in order
     shadow |-> [k \in KeySpace |-> NIL],           \* pixels after the last mutation
     sent |-> 0,                                    \* errors sent on errs
     flushed |-> FALSE,                             \* Flush has returned nil since Do
     made |-> [k \in KeySpace |-> 0],               \* contexts newContext made per key
     loops |-> [k \in KeySpace |-> 0],              \* unload goroutines started per key
     twin |-> [k \in KeySpace |-> NIL]]             \* the canvases had no unload ever run

\* Chunk files found in the directory when the image is opened.
GridKeys(m) ==
    {k \in KeySpace : k[1] * m.chunkSize < m.bounds.MaxX /\ k[2] * m.chunkSize < m.bounds.MaxY}

InitCache(m, corrupt) ==
    /\ img = m
    /\ op = newOperation(m)
    /\ chunks = {}
    /\ Img = [k \in KeySpace |-> NIL]
    /\ edited = [k \in KeySpace |-> FALSE]
    /\ disk = [k \in KeySpace |-> IF k \in corrupt THEN CORRUPT ELSE ABSENT]
    /\ chunkLock = NoOne
    /\ loadLock = [k \in KeySpace |-> NoOne]
    /\ rwW = [k \in KeySpace |-> NONE]
    /\ readers = [k \in KeySpace |-> 0]
    /\ rwait = [k \in KeySpace |-> {}]
    /\ ev = [k \in KeySpace |-> "off"]
    /\ work = <<>>
    /\ wg = 0
    /\ errsClosed = FALSE
    /\ ferr = <<>>
    /\ proc = [p \in Loaders |-> IF p = Main THEN [IdleProc EXCEPT !.pc = "idle"] ELSE IdleProc]
    /\ fl = IdleFlush
    /\ dos = 0
    /\ ret = NoRet
    /\ hist = EmptyHist

\* ------------------------------------------------------------ sync.RWMutex

\* RLock goes through unless a writer has announced itself (readerCount < 0).
RLockFree(k) == rwW[k] = NONE

\* A writer that does not wait for the readers.
LockAtOnce(k) == TRUE

\* A writer that has announced itself proceeds once the readers have left.
LockReady(k) == readers[k] = 0

\* Unlock: the readers blocked meanwhile all become holders.
Admit(k) == [p \in Loaders |-> IF p \in rwait[k] THEN [proc[p] EXCEPT !.pc = "M_lock"] ELSE proc[p]]

\* ----------------------------------------------------------------- context

\* A loadLock that excludes nobody.
LoadLockOpen(k) == TRUE

\* maybeLoadImage's section is entered under loadLock.
LoadLockFree(k) == loadLock[k] = NoOne

\* A load that ignores the chunk file.
coldLoadBlank(file, cs) == [img |-> NewContext(cs), err |-> FALSE]

\* maybeLoadImage past its check: LoadPNG of the chunk file gives a blank
\* canvas (no file), an error, or the decoded image.
coldLoad(file, cs) ==
    IF file = ABSENT THEN [img |-> NewContext(cs), err |-> FALSE]
    ELSE IF file = CORRUPT THEN [img |-> NIL, err |-> TRUE]
    ELSE [img |-> NewContextForImage(file), err |-> FALSE]

\* maybeLoadImage run without interruption: a loaded image is kept.
maybeLoadImage(canvas, file, cs) ==
    IF canvas # NIL THEN [img |-> canvas, err |-> FALSE] ELSE coldLoad(file, cs)

\* How a SavePNG can end: written, not created, or created and cut short.
SaveOutcomes == {"ok", "nocreate", "partial"}

\* An unloadImage that drops the image whatever SavePNG returned.
unloadImageDropOnError(canvas, isEdited, file, outcome) ==
    IF canvas = NIL THEN [img |-> NIL, disk |-> file, err |-> FALSE]
    ELSE IF isEdited /\ outcome = "nocreate" THEN [img |-> NIL, disk |-> file, err |-> TRUE]
    ELSE IF isEdited /\ outcome = "partial" THEN [img |-> NIL, disk |-> CORRUPT, err |-> TRUE]
    ELSE IF isEdited THEN [img |-> NIL, disk |-> SavePNG(canvas), err |-> FALSE]
    ELSE [img |-> NIL, disk |-> file, err |-> FALSE]

\* An unloadImage that drops the image without writing it.
unloadImageNoSave(canvas, isEdited, file, outcome) ==
    [img |-> NIL, disk |-> file, err |-> FALSE]

\* unloadImage under the write lock, with the outcome of SavePNG if it runs.
unloadImage(canvas, isEdited, file, outcome) ==
    IF canvas = NIL THEN [img |-> NIL, disk |-> file, err |-> FALSE]
    ELSE IF isEdited /\ outcome = "nocreate" THEN [img |-> canvas, disk |-> file, err |-> TRUE]
    ELSE IF isEdited /\ outcome = "partial" THEN [img |-> canvas, disk |-> CORRUPT, err |-> TRUE]
    ELSE IF isEdited THEN [img |-> NIL, disk |-> SavePNG(canvas), err |-> FALSE]
    ELSE [img |-> NIL, disk |-> file, err |-> FALSE]

\* The effect of unloadImage and Unlock on context k: the image dropped or
\* kept, the readers blocked meanwhile admitted.
Unloaded(k, outcome) ==
    LET u == unloadImage(Img[k], edited[k], disk[k], outcome)
    IN /\ Img' = [Img EXCEPT ![k] = u.img]
       /\ disk' = [disk EXCEPT ![k] = u.disk]
       /\ rwW' = [rwW EXCEPT ![k] = NONE]
       /\ readers' = [readers EXCEPT ![k] = @ + Cardinality(rwait[k])]
       /\ rwait' = [rwait EXCEPT ![k] = {}]
       /\ proc' = Admit(k)
       /\ ev' = [ev EXCEPT ![k] = "sleep"]

\* unload, going round its loop: Lock().  With no reader inside, the lock is
\* taken and unloadImage and Unlock follow; with readers inside, the writer has
\* announced itself (new readers now block) and waits for them to leave.
EvLock(k) ==
    /\ ev[k] = "sleep"
    /\ rwW[k] = NONE
    /\ IF LockReady(k)
       THEN \E outcome \in SaveOutcomes : Unloaded(k, outcome)
       ELSE /\ rwW' = [rwW EXCEPT ![k] = "unload"]
            /\ ev' = [ev EXCEPT ![k] = "locking"]
            /\ UNCHANGED <<Img, disk, readers, rwait, proc>>
    /\ UNCHANGED <<imgVars, chunks, edited, chunkLock, loadLock, doVars, callVars, hist>>

\* unload: the readers gone, the waiting Lock() returns; unloadImage and Unlock.
EvUnload(k) ==
    /\ ev[k] = "locking"
    /\ LockReady(k)
    /\ \E outcome \in SaveOutcomes : Unloaded(k, outcome)
    /\ UNCHANGED <<imgVars, chunks, edited, chunkLock, loadLock, doVars, callVars, hist>>

\* ------------------------------------------------------------- cache.Load

\* A lookup that finds no key.
KnownNever(k) == FALSE

\* Load's lookup: ctx, ok := c.chunks[key].
Known(k) == k \in chunks

\* Load: chunkLock.Lock() and the lookup; a known key releases chunkLock
\* before with(), a new key gets its context and keeps chunkLock over with().
LoadFind(p) ==
    /\ proc[p].pc = "L_lock"
    /\ chunkLock = NoOne
    /\ IF Known(proc[p].lkey)
       THEN /\ proc' = [proc EXCEPT ![p].pc = "L_rlock", ![p].lnew = FALSE]
            /\ UNCHANGED <<chunks, chunkLock, hist>>
       ELSE /\ chunks' = chunks \cup {proc[p].lkey}
            /\ chunkLock' = p
            /\ hist' = [hist EXCEPT !.made[proc[p].lkey] = @ + 1]
            /\ proc' = [proc EXCEPT ![p].pc = "L_rlock", ![p].lnew = TRUE]
    /\ UNCHANGED <<imgVars, Img, edited, disk, loadLock, rwW, readers, rwait, ev, doVars,
                   callVars>>

\* with: unloadLock.RLock(), blocking behind an announced writer.
WithRLock(p) ==
    /\ proc[p].pc = "L_rlock"
    /\ LET k == proc[p].lkey
       IN IF RLockFree(k)
          THEN /\ readers' = [readers EXCEPT ![k] = @ + 1]
               /\ proc' = [proc EXCEPT ![p].pc = "M_lock"]
               /\ UNCHANGED rwait
          ELSE /\ rwait' = [rwait EXCEPT ![k] = @ \cup {p}]
               /\ proc' = [proc EXCEPT ![p].pc = "L_rwait"]
               /\ UNCHANGED readers
    /\ UNCHANGED <<imgVars, cacheVars, chunkLock, loadLock, rwW, ev, doVars, callVars, hist>>

\* Load's return to its caller (which holds the read lock whatever the
\* error): on the new-key path chunkLock.Unlock() and go ctx.unload() first.
Returned(p, err) ==
    /\ chunkLock' = IF proc[p].lnew THEN NoOne ELSE chunkLock
    /\ ev' = IF proc[p].lnew THEN [ev EXCEPT ![proc[p].lkey] = "sleep"] ELSE ev
    /\ proc' = [proc EXCEPT ![p].pc = proc[p].frame, ![p].lnew = FALSE, ![p].lerr = err]

\* The history h with the unload goroutine that Load's return starts.
Started(p, h) ==
    IF proc[p].lnew THEN [h EXCEPT !.loops[proc[p].lkey] = @ + 1] ELSE h

\* maybeLoadImage: loadLock.Lock() and the check of c.Img; a loaded image
\* returns at once (the deferred Unlock), a missing one is read next.
MaybeCheck(p) ==
    /\ proc[p].pc = "M_lock"
    /\ LoadLockFree(proc[p].lkey)
    /\ LET k == proc[p].lkey
       IN IF Img[k] # NIL
          THEN /\ Returned(p, FALSE)
               /\ hist' = Started(p, hist)
               /\ UNCHANGED loadLock
          ELSE /\ loadLock' = [loadLock EXCEPT ![k] = p]
               /\ proc' = [proc EXCEPT ![p].pc = "M_read"]
               /\ UNCHANGED <<chunkLock, ev, hist>>
    /\ UNCHANGED <<imgVars, cacheVars, rwW, readers, rwait, doVars, callVars>>

\* maybeLoadImage: LoadPNG and the new canvas (or the error), loadLock released.
MaybeRead(p) ==
    /\ proc[p].pc = "M_read"
    /\ LET k == proc[p].lkey
           c == coldLoad(disk[k], img.chunkSize)
       IN /\ Img' = [Img EXCEPT ![k] = IF c.err THEN @ ELSE c.img]
          /\ hist' = Started(p, IF c.err THEN hist
                                    ELSE [hist EXCEPT !.shadow[k] =
                                             IF @ = NIL THEN c.img.pix ELSE @])
          /\ loadLock' = [loadLock EXCEPT ![k] = IF @ = p THEN NoOne ELSE @]
          /\ Returned(p, c.err)
    /\ UNCHANGED <<imgVars, chunks, edited, disk, rwW, readers, rwait, doVars, callVars>>

\* A Done that releases nothing.
RUnlockNot(k) == readers

\* Done: unloadLock.RUnlock().
RUnlock(k) == [readers EXCEPT ![k] = @ - 1]

\* --------------------------------------------------------- operation.apply

ChunkOff(k) == <<k[1] * img.chunkSize, k[2] * img.chunkSize>>

\* The chunk's own rectangle in the image: mbounds.Add(image.Pt(offXI, offYI)).
Footprint(k) ==
    Rect(ChunkOff(k)[1], ChunkOff(k)[2],
         ChunkOff(k)[1] + img.chunkSize, ChunkOff(k)[2] + img.chunkSize)

\* Mask's draw.Draw of chunk j's AsMask into the destination for rectangle r.
MaskDraw(dst, r, j, canvas) ==
    [p \in DOMAIN dst |->
        LET q == <<r.MinX + p[1] - ChunkOff(j)[1], r.MinY + p[2] - ChunkOff(j)[2]>>
        IN IF q \in DOMAIN canvas.pix THEN Alpha(canvas.pix[q]) ELSE dst[p]]

\* A loop over o.queue that stops before the last deferred function.
QueueDoneEarly(i) == i >= Len(op.queue)

\* apply's range over o.queue is past its last element.
QueueDone(i) == i > Len(op.queue)

\* A worker back at the head of its range loop, its locals gone.
AtRecv == [IdleProc EXCEPT !.pc = "recv"]

\* A worker takes the next key from the work channel, or leaves when it is
\* closed.  The workers waiting on the channel are alike: the one with the
\* lowest number is the one that receives.
Recv(w) ==
    /\ proc[w].pc = "recv"
    /\ \A v \in Workers : v < w => proc[v].pc # "recv"
    /\ IF work # <<>>
       THEN /\ work' = Tail(work)
            /\ proc' = [proc EXCEPT ![w].pc = "L_lock", ![w].frame = "A_ret",
                                    ![w].key = Head(work), ![w].lkey = Head(work),
                                    ![w].idx = 1]
            /\ hist' = [hist EXCEPT !.taken = @ \cup {Head(work)}]
            /\ UNCHANGED wg
       ELSE /\ wg' = wg - 1
            /\ proc' = [proc EXCEPT ![w] = [IdleProc EXCEPT !.pc = "exited"]]
            /\ UNCHANGED <<work, hist>>
    /\ UNCHANGED <<imgVars, cacheVars, lockVars, ev, errsClosed, ferr, callVars>>

\* apply after Load: on an error the deferred Done runs, apply returns the error
\* and the worker sends it on errs (checkErrors is receiving) and continues.
ApplyRet(w) ==
    /\ proc[w].pc = "A_ret"
    /\ IF proc[w].lerr
       THEN /\ readers' = RUnlock(proc[w].key)
            /\ ferr' = Append(ferr, proc[w].key)
            /\ hist' = [hist EXCEPT !.failed = @ \cup {proc[w].key},
                                    !.returned = @ \cup {proc[w].key},
                                    !.sent = @ + 1]
            /\ proc' = [proc EXCEPT ![w] = AtRecv]
       ELSE /\ proc' = [proc EXCEPT ![w].pc = "replay"]
            /\ UNCHANGED <<readers, ferr, hist>>
    /\ UNCHANGED <<imgVars, cacheVars, chunkLock, loadLock, rwW, rwait, ev, work, wg,
                   errsClosed, callVars>>

\* apply's loop over o.queue: one deferred function per step; past the end
\* apply returns nil and the deferred Done runs.
Replay(w) ==
    /\ proc[w].pc = "replay"
    /\ LET k == proc[w].key
           i == proc[w].idx
       IN IF QueueDone(i)
          THEN /\ readers' = RUnlock(k)
               /\ hist' = [hist EXCEPT !.returned = @ \cup {k}]
               /\ proc' = [proc EXCEPT ![w] = AtRecv]
               /\ UNCHANGED <<Img, edited>>
          ELSE IF Img[k] = NIL
          THEN /\ proc' = [proc EXCEPT ![w].pc = "panic"]
               /\ UNCHANGED <<readers, hist, Img, edited>>
          ELSE IF op.queue[i].Func = "setMask"
          THEN /\ proc' = [proc EXCEPT ![w].pc = "mask_next",
                                       ![w].mwork = chunksWithin(img, Footprint(k)),
                                       ![w].macc = [p \in LocalPts(img.chunkSize) |-> 0]]
               /\ UNCHANGED <<readers, hist, Img, edited>>
          ELSE LET c == applyAction(Img[k], op.queue[i], ChunkOff(k)[1], ChunkOff(k)[2])
               IN /\ Img' = [Img EXCEPT ![k] = c]
                  /\ edited' = [edited EXCEPT ![k] = @ \/ op.queue[i].Func \in EditingFuncs]
                  /\ hist' = [hist EXCEPT !.replayed[k] = Append(@, op.queue[i]),
                                          !.shadow[k] = c.pix]
                  /\ proc' = [proc EXCEPT ![w].idx = i + 1]
                  /\ UNCHANGED readers
    /\ UNCHANGED <<imgVars, chunks, disk, chunkLock, loadLock, rwW, rwait, ev, doVars, callVars>>

\* Mask's loop over chunksWithin(r): Load the next chunk, or, the channel
\* drained, return the mask, which apply sets on the canvas.
MaskNext(w) ==
    /\ proc[w].pc = "mask_next"
    /\ LET k == proc[w].key
       IN IF proc[w].mwork # <<>>
          THEN /\ proc' = [proc EXCEPT ![w].pc = "L_lock", ![w].frame = "K_ret",
                                       ![w].lkey = Head(proc[w].mwork),
                                       ![w].mwork = Tail(proc[w].mwork)]
               /\ UNCHANGED <<Img, hist>>
          ELSE IF Img[k] = NIL
          THEN /\ proc' = [proc EXCEPT ![w].pc = "panic"]
               /\ UNCHANGED <<Img, hist>>
          ELSE /\ Img' = [Img EXCEPT ![k].mask = proc[w].macc]
               /\ hist' = [hist EXCEPT !.replayed[k] = Append(@, op.queue[proc[w].idx])]
               /\ proc' = [proc EXCEPT ![w].pc = "replay", ![w].idx = @ + 1,
                                       ![w].macc = NoMask]
    /\ UNCHANGED <<imgVars, chunks, edited, disk, lockVars, ev, doVars, callVars>>

\* Mask after Load: on an error Done and return it (apply returns it, its
\* deferred Done runs, the worker sends it); otherwise draw the chunk's mask
\* and Done.
MaskRet(w) ==
    /\ proc[w].pc = "K_ret"
    /\ LET k == proc[w].key
           j == proc[w].lkey
       IN IF proc[w].lerr
          THEN /\ readers' = [readers EXCEPT ![j] = @ - 1, ![k] = @ - 1]
               /\ ferr' = Append(ferr, k)
               /\ hist' = [hist EXCEPT !.failed = @ \cup {k}, !.returned = @ \cup {k},
                                       !.sent = @ + 1]
               /\ proc' = [proc EXCEPT ![w] = AtRecv]
          ELSE IF Img[j] = NIL
          THEN /\ proc' = [proc EXCEPT ![w].pc = "panic"]
               /\ UNCHANGED <<readers, ferr, hist>>
          ELSE /\ readers' = RUnlock(j)
               /\ proc' = [proc EXCEPT ![w].pc = "mask_next",
                              ![w].macc = MaskDraw(proc[w].macc, Footprint(k), j, Img[j])]
               /\ UNCHANGED <<ferr, hist>>
    /\ UNCHANGED <<imgVars, cacheVars, chunkLock, loadLock, rwW, rwait, ev, work, wg,
                   errsClosed, callVars>>

\* ------------------------------------------------------------ operation.Do

\* A checkErrors that drops what it receives.
checkErrorsNil(errs) == FALSE

\* checkErrors: whether the error it returns is non-nil, given the errors
\* received on errs.
checkErrors(errs) == errs # <<>>

\* A Wait that returns at once.
WaitNoOne == TRUE

\* wg.Wait() returns when every worker has called wg.Done().
WaitDone == wg = 0

\* Do up to the fan-out: clamp, chunksWithin, errs, one goroutine per routine.
StartDo(o) ==
    /\ op' = DoClamp(o, img)
    /\ work' = chunksWithin(img, DoRect(DoClamp(o, img)))
    /\ wg' = o.routines
    /\ errsClosed' = FALSE
    /\ ferr' = <<>>
    /\ proc' = [p \in Loaders |->
                  IF p = Main THEN [proc[p] EXCEPT !.pc = "do_wait"]
                  ELSE IF p <= o.routines THEN [IdleProc EXCEPT !.pc = "recv"]
                  ELSE IdleProc]
    /\ hist' = [hist EXCEPT !.targets = chunksWithin(img, DoRect(DoClamp(o, img))),
                            !.taken = {}, !.returned = {}, !.failed = {}, !.sent = 0,
                            !.flushed = FALSE,
                            !.replayed = [k \in KeySpace |-> <<>>]]

\* The goroutine that waits for the workers and closes errs.
CloseErrs ==
    /\ proc[Main].pc = "do_wait"
    /\ ~errsClosed
    /\ WaitDone
    /\ errsClosed' = TRUE
    /\ UNCHANGED <<imgVars, cacheVars, lockVars, ev, work, wg, ferr, proc, callVars, hist>>

\* checkErrors: the range over errs ends when errs is closed; Do returns ferr.
DoReturn ==
    /\ proc[Main].pc = "do_wait"
    /\ errsClosed
    /\ ret' = [call |-> "Do", err |-> checkErrors(ferr), val |-> ferr]
    /\ proc' = [proc EXCEPT ![Main].pc = "idle"]
    /\ UNCHANGED <<imgVars, cacheVars, lockVars, ev, doVars, fl, dos, hist>>

\* ------------------------------------------------------------- Mimage.AtOk

\* AtOk up to cache.Load; a point judged outside returns the zero colour.
StartAtOk(x, y) ==
    LET c == toChunk(img, x, y)
    IN IF ~c[3]
       THEN /\ ret' = [call |-> "AtOk", err |-> FALSE, val |-> 0, x |-> x, y |-> y]
            /\ UNCHANGED proc
       ELSE /\ proc' = [proc EXCEPT ![Main].pc = "L_lock", ![Main].frame = "R_ret",
                                    ![Main].lkey = <<c[1], c[2]>>,
                                    ![Main].key = <<c[1], c[2]>>,
                                    ![Main].x = x, ![Main].y = y]
            /\ ret' = NoRet

\* image.RGBA.At: the zero colour outside the canvas.
PixAt(canvas, p) == IF p \in DOMAIN canvas.pix THEN canvas.pix[p] ELSE 0

\* AtOk after Load: the deferred Done, and the colour or the error.
AtOkRet ==
    /\ proc[Main].pc = "R_ret"
    /\ LET k == proc[Main].key
           q == <<proc[Main].x - ChunkOff(k)[1], proc[Main].y - ChunkOff(k)[2]>>
       IN /\ readers' = RUnlock(k)
          /\ ret' = IF proc[Main].lerr \/ Img[k] = NIL
                    THEN [call |-> "AtOk", err |-> TRUE, val |-> 0,
                          x |-> proc[Main].x, y |-> proc[Main].y]
                    ELSE [call |-> "AtOk", err |-> FALSE, val |-> PixAt(Img[k], q),
                          x |-> proc[Main].x, y |-> proc[Main].y]
    /\ proc' = [proc EXCEPT ![Main] = [IdleProc EXCEPT !.pc = "idle"]]
    /\ UNCHANGED <<imgVars, cacheVars, chunkLock, loadLock, rwW, rwait, ev, doVars, fl,
                   dos, hist>>

\* ------------------------------------------------------------- cache.Flush

\* Flush: chunkLock.Lock().
FlushLock ==
    /\ proc[Main].pc = "F_lock"
    /\ chunkLock = NoOne
    /\ chunkLock' = Main
    /\ fl' = IdleFlush
    /\ proc' = [proc EXCEPT ![Main].pc = "F_lockall"]
    /\ UNCHANGED <<imgVars, cacheVars, loadLock, rwW, readers, rwait, ev, doVars, dos,
                   ret, hist>>

\* Flush, first loop: unloadLock.Lock() on the next context (map order),
\* announced here ...
FlushAnnounce ==
    /\ proc[Main].pc = "F_lockall"
    /\ fl.cur = NoKey
    /\ IF chunks \subseteq fl.locked
       THEN /\ proc' = [proc EXCEPT ![Main].pc = "F_write"]
            /\ UNCHANGED <<rwW, fl>>
       ELSE /\ \E k \in chunks \ fl.locked :
                 /\ rwW[k] = NONE
                 /\ rwW' = [rwW EXCEPT ![k] = "flush"]
                 /\ fl' = [fl EXCEPT !.cur = k]
            /\ UNCHANGED proc
    /\ UNCHANGED <<imgVars, cacheVars, chunkLock, loadLock, readers, rwait, ev, doVars,
                   dos, ret, hist>>

\* ... and held once the readers have left.
FlushAcquire ==
    /\ proc[Main].pc = "F_lockall"
    /\ fl.cur # NoKey
    /\ LockReady(fl.cur)
    /\ fl' = [fl EXCEPT !.locked = @ \cup {fl.cur}, !.cur = NoKey]
    /\ UNCHANGED <<imgVars, cacheVars, lockVars, ev, doVars, proc, dos, ret, hist>>

\* Flush, second loop: unloadImage on the next context; the first error ends it.
FlushWrite ==
    /\ proc[Main].pc = "F_write"
    /\ IF chunks \subseteq fl.written
       THEN /\ proc' = [proc EXCEPT ![Main].pc = "F_unlock"]
            /\ UNCHANGED <<Img, disk, fl>>
       ELSE \E k \in chunks \ fl.written, outcome \in SaveOutcomes :
               LET u == unloadImage(Img[k], edited[k], disk[k], outcome)
               IN /\ Img' = [Img EXCEPT ![k] = u.img]
                  /\ disk' = [disk EXCEPT ![k] = u.disk]
                  /\ IF u.err
                     THEN /\ fl' = [fl EXCEPT !.err = TRUE]
                          /\ proc' = [proc EXCEPT ![Main].pc = "F_unlock"]
                     ELSE /\ fl' = [fl EXCEPT !.written = @ \cup {k}]
                          /\ UNCHANGED proc
    /\ UNCHANGED <<imgVars, chunks, edited, lockVars, ev, doVars, dos, ret, hist>>

\* A Flush that returns without its deferred Unlocks of the contexts.
FlushReturnLocked ==
    /\ proc[Main].pc = "F_unlock"
    /\ chunkLock' = NoOne
    /\ ret' = [call |-> "Flush", err |-> fl.err, val |-> NONE]
    /\ hist' = [hist EXCEPT !.flushed = @ \/ ~fl.err]
    /\ proc' = [proc EXCEPT ![Main].pc = "idle"]
    /\ UNCHANGED <<imgVars, cacheVars, loadLock, rwW, readers, rwait, ev, doVars, fl, dos>>

\* Flush returns: the deferred Unlocks of every context and of chunkLock.
FlushReturn ==
    /\ proc[Main].pc = "F_unlock"
    /\ rwW' = [k \in KeySpace |-> IF k \in fl.locked THEN NONE ELSE rwW[k]]
    /\ readers' = [k \in KeySpace |->
                     IF k \in fl.locked THEN readers[k] + Cardinality(rwait[k]) ELSE readers[k]]
    /\ rwait' = [k \in KeySpace |-> IF k \in fl.locked THEN {} ELSE rwait[k]]
    /\ chunkLock' = NoOne
    /\ ret' = [call |-> "Flush", err |-> fl.err, val |-> NONE]
    /\ hist' = [hist EXCEPT !.flushed = @ \/ ~fl.err]
    /\ proc' = [p \in Loaders |->
                  IF p = Main THEN [proc[p] EXCEPT !.pc = "idle"]
                  ELSE IF \E k \in fl.locked : p \in rwait[k]
                       THEN [proc[p] EXCEPT !.pc = "M_lock"]
                       ELSE proc[p]]
    /\ UNCHANGED <<imgVars, cacheVars, loadLock, ev, doVars, fl, dos>>

\* ------------------------------------------------- the concurrent program

\* The images of the concurrent runs: 2 x 4 pixels in two chunks of 2 x 2.
ConcImages ==
    {[bounds |-> Rect(0, 0, 2, 4), chunkSize |-> 2, routines |-> r] : r \in 1 .. MaxRoutines}

\* The operations the caller draws in the concurrent runs.
OpPixel(m) == opSetPixel(opSetColor(newOperation(m), 1), 0, 0)
OpClear(m) == opClear(opSetColor(newOperation(m), 2), m)
OpMaskClear(m) == opClear(opSetMask(opSetColor(newOperation(m), 1)), m)
ConcOps(m) == {OpPixel(m), OpClear(m), OpMaskClear(m)}

\* The points the caller reads in the concurrent runs.
ReadPts == {<<0, 0>>, <<0, 2>>}

Init ==
    \E m \in ConcImages : \E corrupt \in SUBSET GridKeys(m) : InitCache(m, corrupt)

\* The caller draws an operation and calls Do.
CallDo ==
    /\ proc[Main].pc = "idle"
    /\ dos < MaxDos
    /\ dos' = dos + 1
    /\ \E o \in ConcOps(img) : StartDo(o)
    /\ ret' = NoRet
    /\ UNCHANGED <<img, cacheVars, lockVars, ev, fl>>

CallAtOk ==
    /\ proc[Main].pc = "idle"
    /\ UNCHANGED dos
    /\ \E pt \in ReadPts : StartAtOk(pt[1], pt[2])
    /\ UNCHANGED <<imgVars, cacheVars, lockVars, ev, doVars, fl, hist>>

CallFlush ==
    /\ proc[Main].pc = "idle"
    /\ UNCHANGED dos
    /\ proc' = [proc EXCEPT ![Main].pc = "F_lock"]
    /\ ret' = NoRet
    /\ UNCHANGED <<imgVars, cacheVars, lockVars, ev, doVars, fl, hist>>

Next ==
    \/ CallDo
    \/ CallAtOk
    \/ CallFlush
    \/ CloseErrs
    \/ DoReturn
    \/ AtOkRet
    \/ FlushLock
    \/ FlushAnnounce
    \/ FlushAcquire
    \/ FlushWrite
    \/ FlushReturn
    \/ \E p \in Loaders : LoadFind(p)
    \/ \E p \in Loaders : WithRLock(p)
    \/ \E p \in Loaders : MaybeCheck(p)
    \/ \E p \in Loaders : MaybeRead(p)
    \/ \E w \in Workers : Recv(w)
    \/ \E w \in Workers : ApplyRet(w)
    \/ \E w \in Workers : Replay(w)
    \/ \E w \in Workers : MaskNext(w)
    \/ \E w \in Workers : MaskRet(w)
    \/ \E k \in KeySpace : EvLock(k)
    \/ \E k \in KeySpace : EvUnload(k)

Spec == Init /\ [][Next]_vars

\* ------------------------------------------------- the sequential program
\* One caller, one worker at a time and no unload in the middle of a call:
\* each call runs to its end in one step, through the same functions.

\* The cache as the calls below thread it.
CacheNow ==
    [chunks |-> chunks, Img |-> Img, edited |-> edited, ev |-> ev,
     failed |-> <<>>, returned |-> {}, replayed |-> hist.replayed, shadow |-> hist.shadow]

\* cache.Load run to its end: the context found or made (its unload started),
\* the image loaded if it was not.
seqLoad(st, k) ==
    LET c == maybeLoadImage(st.Img[k], disk[k], img.chunkSize)
    IN [st |-> [st EXCEPT !.chunks = @ \cup {k},
                          !.ev[k] = IF k \in st.chunks THEN @ ELSE "sleep",
                          !.Img[k] = c.img,
                          !.shadow[k] = IF @ = NIL /\ ~c.err THEN c.img.pix ELSE @],
        err |-> c.err]

\* Mimage.Mask run to its end over the keys of chunksWithin(r).
RECURSIVE seqMask(_, _, _, _)
seqMask(st, r, keys, dst) ==
    IF keys = <<>> THEN [st |-> st, err |-> FALSE, mask |-> dst]
    ELSE LET l == seqLoad(st, Head(keys))
         IN IF l.err THEN [st |-> l.st, err |-> TRUE, mask |-> dst]
            ELSE seqMask(l.st, r, Tail(keys),
                         MaskDraw(dst, r, Head(keys), l.st.Img[Head(keys)]))

\* apply's loop from queue index i on.
RECURSIVE seqReplay(_, _, _)
seqReplay(st, k, i) ==
    IF QueueDone(i) THEN [st |-> st, err |-> FALSE]
    ELSE IF op.queue[i].Func = "setMask"
    THEN LET m == seqMask(st, Footprint(k), chunksWithin(img, Footprint(k)),
                          [p \in LocalPts(img.chunkSize) |-> 0])
         IN IF m.err THEN [st |-> m.st, err |-> TRUE]
            ELSE seqReplay([m.st EXCEPT !.Img[k].mask = m.mask,
                                        !.replayed[k] = Append(@, op.queue[i])],
                           k, i + 1)
    ELSE LET c == applyAction(st.Img[k], op.queue[i], ChunkOff(k)[1], ChunkOff(k)[2])
         IN seqReplay([st EXCEPT !.Img[k] = c,
                                 !.edited[k] = @ \/ op.queue[i].Func \in EditingFuncs,
                                 !.replayed[k] = Append(@, op.queue[i]),
                                 !.shadow[k] = c.pix],
                      k, i + 1)

\* apply run to its end on chunk k.
seqApply(st, k) ==
    LET l == seqLoad(st, k)
    IN IF l.err THEN l ELSE seqReplay(l.st, k, 1)

\* One worker draining the work channel; the errors in the order sent.
RECURSIVE seqWork(_, _)
seqWork(st, keys) ==
    IF keys = <<>> THEN st
    ELSE LET a == seqApply(st, Head(keys))
         IN seqWork([a.st EXCEPT !.failed = IF a.err THEN Append(@, Head(keys)) ELSE @,
                                 !.returned = @ \cup {Head(keys)}],
                    Tail(keys))

\* The images of the sequential runs: 4 x 4 in four chunks, 4 x 2 and 2 x 4 in
\* two, 3 x 3 with chunks that reach past its edge.
SeqImages ==
    {[bounds |-> Rect(0, 0, 4, 4), chunkSize |-> 2, routines |-> 1],
     [bounds |-> Rect(0, 0, 4, 2), chunkSize |-> 2, routines |-> 1],
     [bounds |-> Rect(0, 0, 2, 4), chunkSize |-> 2, routines |-> 1],
     [bounds |-> Rect(0, 0, 3, 3), chunkSize |-> 2, routines |-> 1]}

\* The chunk files that do not decode when a sequential run starts: none, or
\* that of chunk (0,1) of the image of four chunks.
SeqCorrupt(m) == IF Width(m) * Height(m) = 16 THEN {{}, {<<0, 1>>}} ELSE {{}}

SeqInit == \E m \in SeqImages : \E corrupt \in SeqCorrupt(m) : InitCache(m, corrupt)

\* The caller is queuing on an operation it has not run yet.
Queuing == dos = 0 /\ proc[Main].pc = "idle" /\ Len(op.queue) < MaxQueue

Queued(o) ==
    /\ op' = o
    /\ UNCHANGED <<img, cacheVars, lockVars, ev, doVars, proc, callVars, hist>>

\* Arguments of the queuing calls: points (ints), floats (half units), sizes.
PtArgs == {<<0, 0>>, <<3, 1>>, <<1, 3>>}
SizeArgs == {<<2, 2>>, <<3, 0>>}
WidthArgs == {1, 4}
Gradients == {1}
Pictures == {[MinX |-> 0, MinY |-> 0, MaxX |-> 1, MaxY |-> 1, colour |-> 2]}

QSetFillStyle == Queuing /\ \E g \in Gradients : Queued(opSetFillStyle(op, g))
QSetStrokeStyle == Queuing /\ \E g \in Gradients : Queued(opSetStrokeStyle(op, g))
QSetLineWidth == Queuing /\ \E w \in WidthArgs : Queued(opSetLineWidth(op, w))
QSetColor == Queuing /\ \E c \in {2} : Queued(opSetColor(op, c))
QSetPixel == Queuing /\ \E p \in PtArgs : Queued(opSetPixel(op, p[1], p[2]))
QMoveTo == Queuing /\ \E p \in PtArgs : Queued(opMoveTo(op, ToFloat(p[1]), ToFloat(p[2])))
QLineTo == Queuing /\ \E p \in PtArgs : Queued(opLineTo(op, ToFloat(p[1]), ToFloat(p[2])))
QClosePath == Queuing /\ Queued(opClosePath(op))
QDrawRectangle ==
    Queuing /\ \E p \in PtArgs, d \in SizeArgs :
        Queued(opDrawRectangle(op, ToFloat(p[1]), ToFloat(p[2]), ToFloat(d[1]), ToFloat(d[2])))
QRotateAbout == Queuing /\ \E p \in {<<1, 1>>} : Queued(opRotateAbout(op, 1, ToFloat(p[1]), ToFloat(p[2])))
QDrawEllipse ==
    Queuing /\ \E p \in PtArgs, d \in {<<1, 1>>} :
        Queued(opDrawEllipse(op, ToFloat(p[1]), ToFloat(p[2]), d[1], d[2]))
QFill == Queuing /\ Queued(opFill(op))
QStroke == Queuing /\ Queued(opStroke(op))
QClear == Queuing /\ Queued(opClear(op, img))
QSetMask == Queuing /\ Queued(opSetMask(op))
QInvertMask == Queuing /\ Queued(opInvertMask(op))
QDrawImage == Queuing /\ \E i \in Pictures, p \in PtArgs : Queued(opDrawImage(op, i, p[1], p[2]))

\* Do run to its end with one worker.
SeqDo ==
    /\ dos = 0
    /\ proc[Main].pc = "idle"
    /\ dos' = 1
    /\ LET o == DoClamp(op, img)
           keys == chunksWithin(img, DoRect(o))
           st == seqWork([CacheNow EXCEPT !.replayed = [k \in KeySpace |-> <<>>]], keys)
       IN /\ op' = o
          /\ chunks' = st.chunks
          /\ Img' = st.Img
          /\ edited' = st.edited
          /\ ev' = st.ev
          /\ ferr' = st.failed
          /\ ret' = [call |-> "Do", err |-> checkErrors(st.failed), val |-> st.failed]
          /\ hist' = [hist EXCEPT !.targets = keys, !.taken = Range(keys),
                                  !.returned = st.returned, !.failed = Range(st.failed),
                                  !.sent = Len(st.failed), !.replayed = st.replayed,
                                  !.shadow = st.shadow]
    /\ errsClosed' = TRUE
    /\ UNCHANGED <<img, disk, lockVars, work, wg, proc, fl>>

\* AtOk run to its end.
SeqAtOk ==
    /\ dos = 1
    /\ ret.call = "Do"
    /\ \E pt \in PtArgs \cup {<<4, 4>>} :
         LET x == pt[1]
             y == pt[2]
             c == toChunk(img, x, y)
             k == <<c[1], c[2]>>
             l == seqLoad(CacheNow, k)
         IN IF ~c[3]
            THEN /\ ret' = [call |-> "AtOk", err |-> FALSE, val |-> 0, x |-> x, y |-> y]
                 /\ UNCHANGED <<chunks, Img, ev, hist>>
            ELSE /\ chunks' = l.st.chunks
                 /\ Img' = l.st.Img
                 /\ ev' = l.st.ev
                 /\ hist' = [hist EXCEPT !.shadow = l.st.shadow]
                 /\ ret' = [call |-> "AtOk", err |-> l.err,
                            val |-> IF l.err THEN 0
                                    ELSE PixAt(l.st.Img[k], <<x - ChunkOff(k)[1], y - ChunkOff(k)[2]>>),
                            x |-> x, y |-> y]
    /\ UNCHANGED <<imgVars, edited, disk, lockVars, doVars, proc, fl, dos>>

SeqNext ==
    \/ QSetFillStyle
    \/ QSetStrokeStyle
    \/ QSetLineWidth
    \/ QSetColor
    \/ QSetPixel
    \/ QMoveTo
    \/ QLineTo
    \/ QClosePath
    \/ QDrawRectangle
    \/ QRotateAbout
    \/ QDrawEllipse
    \/ QFill
    \/ QStroke
    \/ QClear
    \/ QSetMask
    \/ QInvertMask
    \/ QDrawImage
    \/ SeqDo
    \/ SeqAtOk

SeqSpec == SeqInit /\ [][SeqNext]_vars

\* ------------------------------------------------------------------ claims

\* What a cache.Load of key k that succeeds now would hand to its caller.
Observed(k) == maybeLoadImage(Img[k], disk[k], img.chunkSize)

\* C1 (no lost writes): for every chunk that has been materialized, a
\* cache.Load that succeeds observes exactly the pixels left by the last
\* mutation made under an acquisition, whether the canvas is still resident or
\* was persisted, dropped and has to be read back from its file.
NoLostWrites ==
    \A k \in chunks :
        (hist.shadow[k] # NIL /\ ~Observed(k).err) => Observed(k).img.pix = hist.shadow[k]

\* C1's case: an edited chunk that was written, dropped and read back (the
\* canvas is resident with its drawing state reset and pixels that are drawn).
NoLostWritesWitness ==
    \E k \in chunks :
        /\ edited[k]
        /\ Img[k] # NIL
        /\ Img[k].color = 0
        /\ \E p \in DOMAIN Img[k].pix : Img[k].pix[p] # 0
        /\ disk[k] = hist.shadow[k]

\* The goroutines inside maybeLoadImage's cold path for key k.
Materializing(k) == {p \in Loaders : proc[p].pc = "M_read" /\ proc[p].lkey = k}

\* C4 (at most one materialization): at any time at most one goroutine is past
\* maybeLoadImage's check for a key, and while it is there the key's Img is
\* nil, so that the canvas it installs overwrites no canvas.
OneMaterialization ==
    \A k \in KeySpace :
        /\ Cardinality(Materializing(k)) <= 1
        /\ Materializing(k) # {} => Img[k] = NIL

\* C4's case: two goroutines in cache.Load for the same key, one of them
\* materializing it and the other held at loadLock.
OneMaterializationWitness ==
    \E p, q \in Loaders :
        /\ p # q
        /\ proc[p].pc = "M_read"
        /\ proc[q].pc = "M_lock"
        /\ proc[q].lkey = proc[p].lkey

\* The goroutines that are in cache.Load.
InLoad(p) == proc[p].pc \in {"L_lock", "L_rlock", "L_rwait", "M_lock", "M_read"}

\* Goroutine p has returned from with() on key k without error and has not
\* called Done(): apply on its chunk (through Mask's loads as well), Mask on
\* the chunk it is drawing from, AtOk on the chunk it reads.
Acquired(p, k) ==
    \/ /\ proc[p].key = k
       /\ \/ proc[p].pc \in {"replay", "mask_next", "K_ret"}
          \/ InLoad(p) /\ proc[p].frame = "K_ret"
          \/ proc[p].pc \in {"A_ret", "R_ret"} /\ ~proc[p].lerr
    \/ /\ proc[p].lkey = k
       /\ proc[p].pc = "K_ret"
       /\ ~proc[p].lerr

\* C5 (no drop under an acquisition): while some goroutine has an outstanding
\* successful acquisition of a chunk, the chunk's Img is non-nil.
NoDropWhileAcquired ==
    \A k \in KeySpace : (\E p \in Loaders : Acquired(p, k)) => Img[k] # NIL

\* C5's case: an acquisition outstanding on a chunk whose unload goroutine, or
\* Flush, has announced its Lock and is waiting for the readers to leave.
NoDropWhileAcquiredWitness ==
    \E k \in KeySpace :
        /\ \E p \in Loaders : Acquired(p, k)
        /\ rwW[k] # NONE
        /\ Img[k] # NIL

\* C2 (round trip): after an operation that queued SetColor(c) and
\* SetPixel(x, y) has been run by Do without error and Flush has returned nil,
\* AtOk(x, y) returns c.
PixelRoundTrip ==
    (/\ ret.call = "AtOk"
     /\ ~ret.err
     /\ hist.flushed
     /\ hist.failed = {}
     /\ Len(op.queue) = 2
     /\ op.queue[1].Func = "setColor"
     /\ op.queue[2].Func = "setPixel"
     /\ op.queue[2].Args = <<ret.x, ret.y>>)
    => ret.val = op.queue[1].Args[1]

\* The pixels of the canvas.
CanvasPts == RectPixels(img.bounds)

\* The canvas pixels inside a queued geometric action's extent: the pixel set,
\* the pixel holding a path point, the pixels whose centre a rectangle or an
\* ellipse covers, the pixels an image is drawn on.
Extent(a) ==
    CASE a.Func = "setPixel" -> {<<a.Args[1], a.Args[2]>>} \cap CanvasPts
      [] a.Func \in {"moveTo", "lineTo"} ->
           {p \in CanvasPts : OnVertex(<<"move", a.Args[1], a.Args[2]>>, p)}
      [] a.Func = "drawRectangle" ->
           {p \in CanvasPts : Covers(<<"rect">> \o a.Args, p)}
      [] a.Func = "drawEllipse" ->
           {p \in CanvasPts : Covers(<<"ellipse">> \o a.Args, p)}
      [] a.Func = "drawImage" ->
           {p \in CanvasPts :
               /\ a.Args[2] <= p[1] /\ p[1] < a.Args[2] + (a.Args[1].MaxX - a.Args[1].MinX)
               /\ a.Args[3] <= p[2] /\ p[2] < a.Args[3] + (a.Args[1].MaxY - a.Args[1].MinY)}
      [] OTHER -> {}

\* The chunk that holds pixel p.
ChunkOf(p) == <<p[1] \div img.chunkSize, p[2] \div img.chunkSize>>

\* C3 (targets never under-estimated): once Do has run, the chunk of every
\* canvas pixel inside the extent of every queued geometric action is among
\* the chunks the queue was replayed on.
TargetsCover ==
    dos = 1 =>
        \A i \in 1 .. Len(op.queue) :
            \A p \in Extent(op.queue[i]) : ChunkOf(p) \in Range(hist.targets)

\* The steps of one goroutine: cache.Load, and a worker's loop.
LoaderStep(p) == LoadFind(p) \/ WithRLock(p) \/ MaybeCheck(p) \/ MaybeRead(p)
WorkerStep(w) == Recv(w) \/ ApplyRet(w) \/ Replay(w) \/ MaskNext(w) \/ MaskRet(w)

\* The scheduler runs every goroutine that can run, a mutex is handed to every
\* goroutine that waits for it, and a Lock that waits for the readers returns
\* when they have left.
FairSpec ==
    /\ Spec
    /\ \A p \in Loaders : SF_vars(LoaderStep(p))
    /\ \A w \in Workers : SF_vars(WorkerStep(w))
    /\ \A k \in KeySpace : WF_vars(EvUnload(k))
    /\ WF_vars(CloseErrs)
    /\ WF_vars(DoReturn)

\* C6 (Do returns): every Do that has been called eventually returns.
DoReturns == (proc[Main].pc = "do_wait") ~> (proc[Main].pc = "idle")

\* C7 (combined error): when Do returns, its error is non-nil if and only if
\* some targeted chunk failed, and every targeted chunk that did not fail had
\* as many deferred functions replayed as the queue holds.
CombinedError ==
    ret.call = "Do" =>
        /\ ret.err <=> hist.failed # {}
        /\ \A k \in Range(hist.targets) \ hist.failed :
               Len(hist.replayed[k]) = Len(op.queue)

\* C7's case: a Do that returned an error with two chunks targeted, one that
\* failed and one that did not.
CombinedErrorWitness ==
    /\ ret.call = "Do"
    /\ ret.err
    /\ hist.failed # {}
    /\ Range(hist.targets) \ hist.failed # {}

\* C8 (replay order): what has been replayed on a chunk is at all times a
\* prefix of the queue, and the whole queue once apply has returned nil.
ReplayInOrder ==
    \A k \in KeySpace :
        /\ Len(hist.replayed[k]) <= Len(op.queue)
        /\ hist.replayed[k] = SubSeq(op.queue, 1, Len(hist.replayed[k]))
        /\ k \in hist.returned \ hist.failed => hist.replayed[k] = op.queue

\* C8's case: two workers, two chunks processed without error, a queue of
\* three deferred functions.
ReplayInOrderWitness ==
    /\ op.routines = 2
    /\ Len(op.queue) = 3
    /\ Cardinality(hist.returned \ hist.failed) = 2

\* C9 (Do returns after the work): when Do returns, every key produced by
\* chunksWithin has been taken by a worker, its apply has returned, and no
\* worker is running.
DoAfterWork ==
    ret.call = "Do" =>
        /\ work = <<>>
        /\ hist.taken = Range(hist.targets)
        /\ hist.returned = Range(hist.targets)
        /\ \A w \in Workers : proc[w].pc \in {"off", "exited"}

\* C9's case: a Do that returned, with two workers and two chunks targeted.
DoAfterWorkWitness ==
    /\ ret.call = "Do"
    /\ op.routines = 2
    /\ Len(hist.targets) = 2

\* C10 (Flush durability): when Flush has returned nil, no tracked chunk has a
\* resident canvas and the file of every edited chunk holds the chunk's pixels
\* as the last mutation left them.
FlushDurable ==
    (ret.call = "Flush" /\ ~ret.err) =>
        \A k \in chunks :
            /\ Img[k] = NIL
            /\ edited[k] => disk[k] = hist.shadow[k]

\* C10's case: Flush has returned nil with two chunks tracked that were edited,
\* their files written.
FlushDurableWitness ==
    /\ ret.call = "Flush"
    /\ ~ret.err
    /\ Cardinality({k \in chunks : edited[k] /\ disk[k] = hist.shadow[k]}) = 2

\* The goroutines on Load's new-key path for key k, between the insertion of
\* the context and go ctx.unload().
Inserting(k) == {p \in Loaders : InLoad(p) /\ proc[p].lnew /\ proc[p].lkey = k}

\* C11 (one context per key): at all times newContext has been called at most
\* once per key, a key is in the registry exactly when its context was made
\* (entries are neither removed nor replaced), and the context has exactly one
\* unload goroutine once the Load that made it has returned, none before.
OneContextPerKey ==
    \A k \in KeySpace :
        /\ hist.made[k] <= 1
        /\ k \in chunks <=> hist.made[k] = 1
        /\ hist.loops[k] = IF Inserting(k) # {} THEN 0 ELSE hist.made[k]
        /\ ev[k] # "off" <=> hist.loops[k] = 1

\* C11's case: two goroutines in cache.Load for the same key at once, the one
\* that inserted the context still holding chunkLock, the other at the lookup.
OneContextPerKeyWitness ==
    \E p, q \in Loaders :
        /\ p # q
        /\ proc[p].lkey = proc[q].lkey
        /\ p \in Inserting(proc[p].lkey)
        /\ proc[q].pc = "L_lock"

\* ------------------------------------------------- chunksWithin on its own

\* The rectangles handed to chunksWithin: image.Rect of any two corners from
\* one pixel before the origin to MaxCoord.
RectArgs ==
    {Rect(x0, y0, x1, y1) : x0 \in -1 .. MaxCoord, y0 \in -1 .. MaxCoord,
                            x1 \in -1 .. MaxCoord, y1 \in -1 .. MaxCoord}

\* A caller drains chunksWithin(r).
AskChunks ==
    /\ \E r \in RectArgs :
         ret' = [call |-> "chunksWithin", err |-> FALSE, val |-> chunksWithin(img, r), r |-> r]
    /\ UNCHANGED <<imgVars, cacheVars, lockVars, ev, doVars, proc, fl, dos, hist>>

RectNext == AskChunks

RectSpec == SeqInit /\ [][RectNext]_vars

\* The chunks that hold a pixel of rectangle r clipped to the canvas.
ChunksOf(r) == {ChunkOf(p) : p \in RectPixels(RectIntersect(r, img.bounds))}

\* C12 (chunksWithin is exact): for a rectangle that intersects the canvas,
\* chunksWithin yields each key once, and the keys are exactly those of the
\* chunks that hold a pixel of the rectangle clipped to the canvas.
ChunksExact ==
    (ret.call = "chunksWithin" /\ ChunksOf(ret.r) # {}) =>
        /\ Cardinality(Range(ret.val)) = Len(ret.val)
        /\ Range(ret.val) = ChunksOf(ret.r)

\* C13 (dirty flag cleared by a write): a chunk's canvas is dropped only by an
\* unloadImage that returned nil, after a successful write if the chunk was
\* dirty; so a tracked chunk that is not resident is not dirty, and its next
\* unloadImage after a read writes nothing.
DirtyCleared ==
    \A k \in chunks : Img[k] = NIL => ~edited[k]

\* C14 (eviction does not wait): an unload goroutine that finds a reader on its
\* chunk gives up at once: it is never waiting for the exclusive lock while a
\* read lock is held, and no goroutine is blocked in with() behind it.
EvictionSkipped ==
    \A k \in KeySpace :
        rwW[k] = "unload" => (readers[k] = 0 /\ rwait[k] = {})

\* C15 (registry lock only for find-or-insert): a goroutine that is past
\* Load's lookup, in with() (its RLock, or maybeLoadImage and its disk read),
\* does not hold chunkLock, on the known-key and on the new-key path; so no
\* Load of another key waits for chunkLock behind a cold load.
RegistryLockShort ==
    \A p \in Loaders :
        proc[p].pc \in {"L_rlock", "L_rwait", "M_lock", "M_read"} =>
            /\ chunkLock # p
            /\ \A q \in Loaders :
                   (proc[q].pc = "L_lock" /\ proc[q].lkey # proc[p].lkey) => chunkLock = NoOne

\* ------------------------------------------------------------ Mimage.Image

\* Image's draw.Draw of chunk j's pixels into the destination for rectangle r.
ImageDraw(dst, r, j, canvas) ==
    [p \in DOMAIN dst |->
        LET q == <<r.MinX + p[1] - ChunkOff(j)[1], r.MinY + p[2] - ChunkOff(j)[2]>>
        IN IF q \in DOMAIN canvas.pix THEN canvas.pix[q] ELSE dst[p]]

\* The caller reads the whole canvas: Image(m.Bounds()).
CallImage ==
    /\ proc[Main].pc = "idle"
    /\ proc' = [proc EXCEPT ![Main].pc = "image_next",
                            ![Main].mwork = chunksWithin(img, img.bounds),
                            ![Main].macc = [p \in RectPixels(RectSub(img.bounds, img.bounds.MinX,
                                                                     img.bounds.MinY)) |-> 0]]
    /\ ret' = NoRet
    /\ UNCHANGED <<imgVars, cacheVars, lockVars, ev, doVars, fl, dos, hist>>

\* Image's loop over chunksWithin(r): Load the next chunk, or return dst.
ImageNext ==
    /\ proc[Main].pc = "image_next"
    /\ IF proc[Main].mwork # <<>>
       THEN /\ proc' = [proc EXCEPT ![Main].pc = "L_lock", ![Main].frame = "I_ret",
                                    ![Main].lkey = Head(proc[Main].mwork),
                                    ![Main].key = Head(proc[Main].mwork),
                                    ![Main].mwork = Tail(proc[Main].mwork)]
            /\ UNCHANGED ret
       ELSE /\ ret' = [call |-> "Image", err |-> FALSE, val |-> proc[Main].macc]
            /\ proc' = [proc EXCEPT ![Main] = [IdleProc EXCEPT !.pc = "idle"]]
    /\ UNCHANGED <<imgVars, cacheVars, lockVars, ev, doVars, fl, dos, hist>>

\* Image after Load: on an error Done and return it; otherwise draw the
\* chunk's image and Done.
ImageRet ==
    /\ proc[Main].pc = "I_ret"
    /\ LET j == proc[Main].lkey
       IN IF proc[Main].lerr
          THEN /\ readers' = RUnlock(j)
               /\ ret' = [call |-> "Image", err |-> TRUE, val |-> proc[Main].macc]
               /\ proc' = [proc EXCEPT ![Main] = [IdleProc EXCEPT !.pc = "idle"]]
          ELSE IF Img[j] = NIL
          THEN /\ proc' = [proc EXCEPT ![Main].pc = "panic"]
               /\ UNCHANGED <<readers, ret>>
          ELSE /\ readers' = RUnlock(j)
               /\ proc' = [proc EXCEPT ![Main].pc = "image_next",
                              ![Main].macc = ImageDraw(proc[Main].macc, img.bounds, j, Img[j])]
               /\ UNCHANGED ret
    /\ UNCHANGED <<imgVars, cacheVars, chunkLock, loadLock, rwW, rwait, ev, doVars, fl,
                   dos, hist>>

\* The concurrent program with a caller that also reads through Image.
ReadNext ==
    \/ Next
    \/ CallImage
    \/ ImageNext
    \/ ImageRet

ReadSpec == Init /\ [][ReadNext]_vars

\* Goroutine p holds the read lock that the cache.Load it is in, or has just
\* returned from, took on key k: from with()'s RLock to the caller's Done.
LoadToken(p, k) ==
    /\ proc[p].lkey = k
    /\ proc[p].pc \in {"M_lock", "M_read", "A_ret", "K_ret", "R_ret", "I_ret"}

\* Worker p holds the read lock of its apply on key k, past apply's check of
\* Load's error: in the replay and in SetMask's Mask.
ApplyToken(p, k) ==
    /\ proc[p].key = k
    /\ \/ proc[p].pc \in {"replay", "mask_next", "K_ret"}
       \/ InLoad(p) /\ proc[p].frame = "K_ret"

\* C16 (Load and Done are matched): the read locks held on a chunk are at all
\* times exactly those of the calls in progress between their Load and their
\* Done, so none is left (leaked) and none is released twice by an apply,
\* Image, Mask or AtOk that has returned, with or without an error.
TokensBalanced ==
    \A k \in KeySpace :
        readers[k] = Cardinality({p \in Loaders : LoadToken(p, k)})
                     + Cardinality({p \in Loaders : ApplyToken(p, k)})

\* C16's case: a Do in which a chunk failed under SetMask has returned, then
\* an Image whose Load failed has returned, and no read lock is held.
TokensBalancedWitness ==
    /\ ret.call = "Image"
    /\ ret.err
    /\ hist.failed # {}
    /\ \E i \in 1 .. Len(op.queue) : op.queue[i].Func = "setMask"
    /\ \E k \in hist.failed : hist.replayed[k] # <<>>
    /\ \A k \in KeySpace : readers[k] = 0

\* The canvas of chunk k after the first n deferred functions of the queue
\* (none of them setMask) were applied to canvas c, from the i-th on.
RECURSIVE PrefixApplied(_, _, _, _)
PrefixApplied(c, k, i, n) ==
    IF i > n THEN c
    ELSE PrefixApplied(applyAction(c, op.queue[i], ChunkOff(k)[1], ChunkOff(k)[2]), k, i + 1, n)

\* The deferred functions that change pixels of the canvas.
MutatingFuncs == {"setPixel", "fill", "stroke", "clear", "drawImage"}

\* C17 (a failed mask read stops the replay, without rollback): when Do has
\* returned, on every chunk that failed after its own load the replay stopped
\* at a SetMask: the deferred functions before it, and no other, are applied
\* to the chunk's canvas, the chunk is dirty if one of them mutates, and every
\* other targeted chunk was taken and, unless it failed as well, had the whole
\* queue replayed.
MaskFailureStops ==
    (dos = 1 /\ ret.call = "Do") =>
        /\ hist.returned = Range(hist.targets)
        /\ \A k \in Range(hist.targets) \ hist.failed : hist.replayed[k] = op.queue
        /\ \A k \in hist.failed :
               LET n == Len(hist.replayed[k])
               IN /\ n <= Len(op.queue)
                  /\ hist.replayed[k] = SubSeq(op.queue, 1, n)
                  /\ Img[k] # NIL =>
                       /\ n < Len(op.queue)
                       /\ op.queue[n + 1].Func = "setMask"
                       /\ Img[k] = PrefixApplied(NewContext(img.chunkSize), k, 1, n)
                       /\ (\E i \in 1 .. n : op.queue[i].Func \in MutatingFuncs) => edited[k]

\* C17's case: a chunk that was cleared and on which the SetMask after it
\* failed, left dirty, next to a chunk that had the whole queue replayed.
MaskFailureStopsWitness ==
    /\ dos = 1
    /\ ret.call = "Do"
    /\ \E k \in hist.failed :
         /\ Img[k] # NIL
         /\ Len(hist.replayed[k]) = 1
         /\ hist.replayed[k][1].Func = "clear"
         /\ edited[k]
    /\ \E k \in Range(hist.targets) \ hist.failed : hist.replayed[k] = op.queue

\* A step in which the unload goroutine of chunk k had SavePNG fail with the
\* file cut short (Flush holds the chunk's lock as "flush" when it writes).
FailedEviction(k) ==
    /\ rwW[k] # "flush"
    /\ disk[k] # CORRUPT
    /\ disk'[k] = CORRUPT

\* C18 (a failed persist keeps the canvas): the step of an unload goroutine
\* whose SavePNG fails leaves the chunk's canvas and dirty flag as they were
\* and releases the exclusive lock; and at all times a dirty chunk whose file
\* is cut short still has its canvas, with the pixels of the last mutation,
\* from which the next eviction or Flush writes again.
PersistFailureKeeps ==
    /\ [](\A k \in KeySpace :
             (edited[k] /\ disk[k] = CORRUPT) =>
                 (Img[k] # NIL /\ Img[k].pix = hist.shadow[k]))
    /\ [][\A k \in KeySpace :
             FailedEviction(k) =>
                 /\ Img[k] # NIL
                 /\ Img'[k] = Img[k]
                 /\ edited[k] /\ edited'[k]
                 /\ rwW'[k] = NONE
                 /\ ev'[k] = "sleep"]_vars

\* C18's case: a dirty chunk whose file was cut short by a failed write, its
\* canvas resident, its lock free and its unload goroutine asleep again.
PersistFailureKeepsWitness ==
    \E k \in chunks :
        /\ edited[k]
        /\ disk[k] = CORRUPT
        /\ Img[k] # NIL
        /\ rwW[k] = NONE
        /\ readers[k] = 0
        /\ ev[k] = "sleep"
        /\ ret.call = "Do"

\* ---------------------------------------------------- Clear on any canvas

\* Images of every width and height up to MaxSide and chunk size up to 3 whose
\* chunk grid fits the key space.
ClearImages ==
    {m \in [bounds : {Rect(0, 0, w, h) : w \in 1 .. MaxSide, h \in 1 .. MaxSide},
            chunkSize : 1 .. 3, routines : {1}] :
        /\ (Width(m) - 1) \div m.chunkSize <= MaxChunk
        /\ (Height(m) - 1) \div m.chunkSize <= MaxChunk}

ClearInit == \E m \in ClearImages : InitCache(m, {})

ClearNext ==
    \/ QSetColor
    \/ QClear
    \/ SeqDo

ClearSpec == ClearInit /\ [][ClearNext]_vars

\* C19 (Clear visits every chunk): when Do has run an operation that queued
\* Clear, the queue was replayed on every chunk of the canvas grid.
ClearVisitsAll ==
    (dos = 1 /\ \E i \in 1 .. Len(op.queue) : op.queue[i].Func = "clear") =>
        /\ Range(hist.targets) = GridKeys(img)
        /\ \A k \in GridKeys(img) : hist.replayed[k] = op.queue


\* A SetLineWidth(w) call of the caller: the queuing step of opSetLineWidth
\* with the argument w.
CallsSetLineWidth(w) == Queuing /\ Queued(opSetLineWidth(op, w))

\* C20 (SetLineWidth carries its width): every SetLineWidth(w) call appends a
\* set-line-width action whose argument is w and leaves maxlineWidth at least
\* w, so that the padding Do applies is the largest width that was asked for.
LineWidthCarried ==
    [][\A w \in WidthArgs :
          CallsSetLineWidth(w) =>
              /\ Len(op'.queue) = Len(op.queue) + 1
              /\ op'.queue[Len(op'.queue)].Func = "setLineWidth"
              /\ op'.queue[Len(op'.queue)].Args = <<w>>
              /\ op'.maxlineWidth >= w]_vars

\* C21 (inBounds is the canvas rectangle): an AtOk(x, y) call finds the point
\* in bounds exactly when (x, y) is a pixel of the canvas rectangle, and a
\* point outside the canvas yields the zero colour with no chunk outside the
\* grid brought into the cache.
InBoundsExact ==
    ret.call = "AtOk" =>
        LET inside == /\ img.bounds.MinX <= ret.x /\ ret.x < img.bounds.MaxX
                      /\ img.bounds.MinY <= ret.y /\ ret.y < img.bounds.MaxY
        IN /\ toChunk(img, ret.x, ret.y)[3] <=> inside
           /\ ~inside => (ret.val = 0 /\ ~ret.err /\ chunks \subseteq GridKeys(img))

\* ------------------------------------- operations run one after another
\* One caller running up to MaxRuns operations in sequence, each call run to
\* its end in one step, while the unload goroutines drop and save idle chunks
\* between the calls.  hist.twin follows the same calls on canvases that no
\* unload ever touched.

TwiceImages ==
    {[bounds |-> Rect(0, 0, 2, 2), chunkSize |-> 2, routines |-> 1],
     [bounds |-> Rect(0, 0, 4, 2), chunkSize |-> 2, routines |-> 1]}

TwiceInit == \E m \in TwiceImages : InitCache(m, {})

\* The caller queues a call on the current operation, not yet run.
TwiceQueue ==
    /\ dos < MaxRuns
    /\ ret.call # "Do"
    /\ Len(op.queue) < MaxQueue
    /\ \E o \in {opSetColor(op, 2), opSetColor(op, 3), opClear(op, img),
                 opDrawRectangle(op, 0, 0, ToFloat(2), ToFloat(2)), opFill(op),
                 opInvertMask(op)} : Queued(o)

\* Do run to its end with one worker, on the cache and on its twin.
TwiceDo ==
    /\ dos < MaxRuns
    /\ ret.call # "Do"
    /\ dos' = dos + 1
    /\ LET o == DoClamp(op, img)
           keys == chunksWithin(img, DoRect(o))
           fresh == [CacheNow EXCEPT !.replayed = [k \in KeySpace |-> <<>>]]
           st == seqWork(fresh, keys)
           tw == seqWork([fresh EXCEPT !.Img = hist.twin], keys)
       IN /\ op' = o
          /\ chunks' = st.chunks
          /\ Img' = st.Img
          /\ edited' = st.edited
          /\ ev' = st.ev
          /\ ferr' = st.failed
          /\ ret' = [call |-> "Do", err |-> checkErrors(st.failed), val |-> st.failed]
          /\ hist' = [hist EXCEPT !.targets = keys, !.taken = Range(keys),
                                  !.returned = st.returned, !.failed = Range(st.failed),
                                  !.sent = Len(st.failed), !.replayed = st.replayed,
                                  !.shadow = st.shadow, !.twin = tw.Img]
    /\ errsClosed' = TRUE
    /\ UNCHANGED <<img, disk, lockVars, work, wg, proc, fl>>

\* m.Draw(): the next operation, once the last has been run.
TwiceDraw ==
    /\ dos < MaxRuns
    /\ ret.call = "Do"
    /\ op' = newOperation(img)
    /\ ret' = [call |-> "Draw", err |-> FALSE, val |-> NONE]
    /\ UNCHANGED <<img, cacheVars, lockVars, ev, doVars, proc, fl, dos, hist>>

\* The unload goroutine of an idle chunk going round its loop between two
\* calls: Lock, unloadImage with a SavePNG that succeeds, Unlock.
TwiceUnload(k) ==
    /\ ret.call = "Do"
    /\ dos < MaxRuns
    /\ ev[k] = "sleep"
    /\ Img[k] # NIL
    /\ LET u == unloadImage(Img[k], edited[k], disk[k], "ok")
       IN /\ Img' = [Img EXCEPT ![k] = u.img]
          /\ disk' = [disk EXCEPT ![k] = u.disk]
    /\ UNCHANGED <<imgVars, chunks, edited, lockVars, ev, doVars, proc, callVars, hist>>

TwiceNext ==
    \/ TwiceQueue
    \/ TwiceDo
    \/ TwiceDraw
    \/ \E k \in KeySpace : TwiceUnload(k)

TwiceSpec == TwiceInit /\ [][TwiceNext]_vars

\* The pixels of chunk k as a reader would find them: those of the loaded
\* canvas, else those of the chunk file, else blank.
Content(canvases, k) ==
    IF canvases[k] # NIL THEN canvases[k].pix
    ELSE IF disk[k] = ABSENT THEN NewContext(img.chunkSize).pix
    ELSE disk[k]

\* C22 (eviction timing is invisible): after operations run one after
\* another, every chunk holds the pixels it would hold had no unload dropped
\* and re-materialized a chunk between two of them.
EvictionInvisible ==
    \A k \in GridKeys(img) : Content(Img, k) = Content(hist.twin, k)

\* The calls that leave the bounding box of an operation alone.
BoxFreeFuncs ==
    {"setColor", "setFillStyle", "setStrokeStyle", "setMask", "invertMask",
     "closePath", "rotateAbout", "fill", "stroke"}

\* C23 (nothing queued, nothing touched): when Do returns from an operation
\* whose queue is empty or holds only calls that leave the bounding box
\* alone, no chunk was targeted, loaded, replayed on or marked edited.
NoBoxNoWork ==
    (/\ ret.call = "Do"
     /\ \A i \in 1 .. Len(op.queue) : op.queue[i].Func \in BoxFreeFuncs) =>
        /\ hist.targets = <<>>
        /\ chunks = {}
        /\ \A k \in KeySpace :
              Img[k] = NIL /\ ~edited[k] /\ hist.replayed[k] = <<>>

\* C24 (producers drain): when the consumer of a chunksWithin channel
\* returns (Image to its caller, Mask to apply, Do to its caller), the
\* producer goroutine has no key left to send: nobody will receive it.
ProducersDrain ==
    [][/\ (proc[Main].pc = "I_ret" /\ proc'[Main].pc = "idle") =>
             proc[Main].mwork = <<>>
       /\ \A w \in Workers :
             (proc[w].pc = "K_ret" /\ proc'[w].pc = "recv") => proc[w].mwork = <<>>
       /\ (proc[Main].pc = "do_wait" /\ proc'[Main].pc = "idle") => work = <<>>]_vars

\* ------------------------------------------- Flush among other goroutines
\* The caller draws once (SetColor, Clear, Do) and flushes, while other
\* goroutines read pixels through AtOk and the unload goroutines go round
\* their loops.

\* Another goroutine calls AtOk on a point of the canvas: cache.Load next.
GoAtOk(w) ==
    /\ dos >= 1
    /\ proc[w].pc = "off"
    /\ \E pt \in ReadPts :
         LET c == toChunk(img, pt[1], pt[2])
         IN /\ c[3]
            /\ proc' = [proc EXCEPT ![w].pc = "L_lock", ![w].frame = "G_ret",
                                    ![w].lkey = <<c[1], c[2]>>, ![w].key = <<c[1], c[2]>>,
                                    ![w].x = pt[1], ![w].y = pt[2]]
    /\ UNCHANGED <<imgVars, cacheVars, lockVars, ev, doVars, callVars, hist>>

\* Its AtOk after Load: the deferred Done, whatever Load returned.
GoAtOkRet(w) ==
    /\ proc[w].pc = "G_ret"
    /\ readers' = RUnlock(proc[w].key)
    /\ proc' = [proc EXCEPT ![w] = IdleProc]
    /\ UNCHANGED <<imgVars, cacheVars, chunkLock, loadLock, rwW, rwait, ev, doVars,
                   callVars, hist>>

FlushNext ==
    \/ QSetColor /\ op.queue = <<>>
    \/ QClear /\ Len(op.queue) = 1
    \/ SeqDo /\ Len(op.queue) = 2
    \/ CallFlush
    \/ FlushLock
    \/ FlushAnnounce
    \/ FlushAcquire
    \/ FlushWrite
    \/ FlushReturn
    \/ \E w \in Workers : GoAtOk(w)
    \/ \E w \in Workers : GoAtOkRet(w)
    \/ \E w \in Workers : LoaderStep(w)
    \/ \E k \in KeySpace : EvLock(k)
    \/ \E k \in KeySpace : EvUnload(k)

\* Scheduling: a goroutine that can run does; sync.Mutex and the writer side
\* of sync.RWMutex hand the lock to a waiter that keeps asking (starvation
\* mode); an unload goroutine may sleep for ever but finishes a Lock it began.
FlushSpec ==
    /\ \E m \in ConcImages : m.routines = 1 /\ InitCache(m, {})
    /\ [][FlushNext]_vars
    /\ SF_vars(FlushLock \/ FlushAnnounce \/ FlushAcquire \/ FlushWrite \/ FlushReturn)
    /\ \A w \in Workers : SF_vars(LoaderStep(w)) /\ WF_vars(GoAtOkRet(w))
    /\ \A k \in KeySpace : WF_vars(EvUnload(k))

\* The positions of the caller inside Flush.
InFlush == proc[Main].pc \in {"F_lock", "F_lockall", "F_write", "F_unlock"}

\* C25 (Flush returns and releases): a Flush that was called returns, and
\* outside Flush the caller holds neither the registry lock nor the
\* exclusive gate of any chunk.
FlushTerminates ==
    /\ InFlush ~> (proc[Main].pc = "idle" /\ ret.call = "Flush")
    /\ [](~InFlush => (chunkLock # Main /\ \A k \in KeySpace : rwW[k] # "flush"))

\* C25's case: Flush holds the registry lock and has announced its Lock on
\* a chunk that another goroutine has acquired, while a reader waits behind
\* it and the unload goroutines of two chunks are running.
FlushTerminatesWitness ==
    /\ proc[Main].pc = "F_lockall"
    /\ fl.cur # NoKey
    /\ readers[fl.cur] > 0
    /\ \E w \in Workers : proc[w].pc = "L_lock"
    /\ Cardinality({k \in KeySpace : ev[k] # "off"}) >= 2

====
